---- MODULE Spec2Model ----
(***************************************************************************)
(* A model of src/2026/src/main.rs: the terminal heart animation.          *)
(*                                                                         *)
(*   Spec       main() and run(): terminal set-up, the draw/poll/advance   *)
(*              loop, the clean-up, with the clock and the keyboard as the *)
(*              environment.                                               *)
(*   LongRunSpec  the same, also picked up just before the counter wraps.  *)
(*   FairSpec   Spec plus the fairness of a running program and a running  *)
(*              clock.                                                     *)
(*   ColorSpec  rainbow_color applied along wrapping tick advances.        *)
(*   HeartSpec  the two nested loops of draw_heart.                        *)
(*                                                                         *)
(* A u64 is kept as four 16-bit limbs, most significant first, so that     *)
(* wrapping_add, the cast to usize and the remainder keep their width.     *)
(* Durations are whole milliseconds.                                       *)
(***************************************************************************)
EXTENDS Integers, Sequences, FiniteSets, TLC

VARIABLES
    pc,            \* position of main/run
    usize_bits,    \* pointer width of the build: 32 or 64
    tick,          \* run: tick (u64)
    elapsed,       \* last_tick.elapsed(): clock now minus last_tick
    timeout,       \* run: timeout handed to event::poll
    waited,        \* time spent so far inside the current event::poll
    pending,       \* events the terminal holds and the program has not read
    res,           \* main: res, the result of run
    ret,           \* what main returned
    raw,           \* whether the terminal is in raw mode
    attempted,     \* the restoration calls main has made
    frame,         \* the last frame drawn: the tick it used and its color
    draws,         \* draws made since run started (saturating)
    advances,      \* tick advances made in the modelled window
    sinceInc,      \* time since the last tick advance (or since run started)
    firstPollQuit, \* whether a quit key headed the input at the first poll
    shown,         \* ColorSpec: the colors selected so far
    ctick,         \* ColorSpec: the tick
    hpc,           \* HeartSpec: position in draw_heart
    layer,         \* draw_heart: layer
    i,             \* draw_heart: i
    pts,           \* draw_heart: pts, the sample index of each point pushed
    hcolor,        \* draw_heart: color
    drawn          \* draw_heart: what ctx.draw received, per call

mainVars == <<pc, tick, elapsed, timeout, waited, pending, res, ret, raw,
              attempted, frame, draws, advances, sinceInc, firstPollQuit>>
colorVars == <<shown, ctick>>
heartVars == <<hpc, layer, i, pts, hcolor, drawn>>
vars == <<mainVars, usize_bits, colorVars, heartVars>>

----------------------------------------------------------------------------
(* Bounds of the model.                                                    *)

MaxPending == 1      \* events the terminal buffers
MaxAdvances == 3     \* tick advances followed per run
ElapsedCap == 120    \* durations saturate here (above the cadence)
DrawsCap == 2        \* the draw count saturates here
ColorSteps == 5      \* advances followed by ColorSpec
NearBy == 6          \* ColorSpec inputs taken each side of a power of two

Delays == {40}       \* the amounts by which the clock is seen to move

----------------------------------------------------------------------------
(* u64 arithmetic on limbs.                                                *)

Limb == 2^16

U64(a, b, c, d) == <<a, b, c, d>>
Zero == U64(0, 0, 0, 0)
One == U64(0, 0, 0, 1)
U64Max == U64(Limb - 1, Limb - 1, Limb - 1, Limb - 1)

\* u64::wrapping_add: limb-wise addition, the carry out of the top dropped.
wrapping_add(a, b) ==
    LET s4 == a[4] + b[4]
        s3 == a[3] + b[3] + (s4 \div Limb)
        s2 == a[2] + b[2] + (s3 \div Limb)
        s1 == a[1] + b[1] + (s2 \div Limb)
    IN  U64(s1 % Limb, s2 % Limb, s3 % Limb, s4 % Limb)

\* `tick as usize`: the low usize_bits bits of the value.
AsUsize(t) == IF usize_bits = 64 THEN t ELSE U64(0, 0, t[3], t[4])

\* x % n for a small n, by long division over the limbs.
URem(x, n) ==
    LET r1 == x[1] % n
        r2 == (r1 * Limb + x[2]) % n
        r3 == (r2 * Limb + x[3]) % n
    IN  (r3 * Limb + x[4]) % n

\* a < b on u64.
ULess(a, b) ==
    \E k \in 1..4 : a[k] < b[k] /\ \A j \in 1..(k - 1) : a[j] = b[j]

----------------------------------------------------------------------------
(* rainbow_color.                                                          *)

COLORS == <<"Red", "Yellow", "Magenta", "LightRed", "LightMagenta">>

ColorIndex(t) == URem(AsUsize(t), Len(COLORS))

rainbow_color(t) == COLORS[ColorIndex(t) + 1]

----------------------------------------------------------------------------
(* The environment: the clock and the keyboard.                            *)

TickRate == 80       \* run: tick_rate, in milliseconds

Min(a, b) == IF a < b THEN a ELSE b

Sat(d) == Min(d, ElapsedCap)

KeyQ == [kind |-> "Key", code |-> "q"]
KeyEsc == [kind |-> "Key", code |-> "Esc"]
KeyUpperQ == [kind |-> "Key", code |-> "Q"]
Resize == [kind |-> "Resize", code |-> "none"]

Events == {KeyQ, KeyEsc, KeyUpperQ, Resize}

LoopPcs == {"draw", "timeout", "poll", "read", "advance_check", "inc", "reset"}

\* The clock moves on while run is executing.  Only differences of clock
\* readings reach the program (Instant::elapsed), so the model keeps those.
TimePass(d) ==
    /\ pc \in LoopPcs
    /\ elapsed' = Sat(elapsed + d)
    /\ sinceInc' = Sat(sinceInc + d)
    /\ waited' = IF pc = "poll" THEN Sat(waited + d) ELSE waited
    /\ UNCHANGED <<pc, tick, timeout, pending, res, ret, raw, attempted, frame,
                   draws, advances, firstPollQuit, usize_bits, colorVars, heartVars>>

\* The user presses a key or resizes the window while the program may still
\* read it.
Input(e) ==
    /\ pc \notin {"disable_raw_mode", "show_cursor", "done"}
    /\ Len(pending) < MaxPending
    /\ pending' = Append(pending, e)
    /\ UNCHANGED <<pc, tick, elapsed, timeout, waited, res, ret, raw, attempted,
                   frame, draws, advances, sinceInc, firstPollQuit, usize_bits, colorVars, heartVars>>

----------------------------------------------------------------------------
(* main.                                                                   *)

\* `?` on an Err: main returns the error at once.
ReturnErr ==
    /\ pc' = "done"
    /\ ret' = "Err"

\* color_eyre::install()?
Install(ok) ==
    /\ pc = "install"
    /\ IF ok THEN pc' = "enable_raw_mode" /\ ret' = ret ELSE ReturnErr
    /\ UNCHANGED <<tick, elapsed, timeout, waited, pending, res, raw, attempted,
                   frame, draws, advances, sinceInc, firstPollQuit, usize_bits, colorVars, heartVars>>

\* enable_raw_mode()?
EnableRawMode(ok) ==
    /\ pc = "enable_raw_mode"
    /\ IF ok THEN pc' = "Terminal_new" /\ ret' = ret /\ raw' = TRUE
             ELSE ReturnErr /\ raw' = raw
    /\ UNCHANGED <<tick, elapsed, timeout, waited, pending, res, attempted,
                   frame, draws, advances, sinceInc, firstPollQuit, usize_bits, colorVars, heartVars>>

\* Terminal::new(backend)?
TerminalNew(ok) ==
    /\ pc = "Terminal_new"
    /\ IF ok THEN pc' = "clear" /\ ret' = ret ELSE ReturnErr
    /\ UNCHANGED <<tick, elapsed, timeout, waited, pending, res, raw, attempted,
                   frame, draws, advances, sinceInc, firstPollQuit, usize_bits, colorVars, heartVars>>

\* terminal.clear()?
Clear(ok) ==
    /\ pc = "clear"
    /\ IF ok THEN pc' = "run" /\ ret' = ret ELSE ReturnErr
    /\ UNCHANGED <<tick, elapsed, timeout, waited, pending, res, raw, attempted,
                   frame, draws, advances, sinceInc, firstPollQuit, usize_bits, colorVars, heartVars>>

\* disable_raw_mode()?
DisableRawMode(ok) ==
    /\ pc = "disable_raw_mode"
    /\ attempted' = attempted \cup {"disable_raw_mode"}
    /\ IF ok THEN pc' = "show_cursor" /\ ret' = ret /\ raw' = FALSE
             ELSE ReturnErr /\ raw' = raw
    /\ UNCHANGED <<tick, elapsed, timeout, waited, pending, res, frame,
                   draws, advances, sinceInc, firstPollQuit, usize_bits, colorVars, heartVars>>

\* terminal.show_cursor()?  and then  res
ShowCursor(ok) ==
    /\ pc = "show_cursor"
    /\ attempted' = attempted \cup {"show_cursor"}
    /\ pc' = "done"
    /\ ret' = IF ok THEN res ELSE "Err"
    /\ UNCHANGED <<tick, elapsed, timeout, waited, pending, res, raw, frame,
                   draws, advances, sinceInc, firstPollQuit, usize_bits, colorVars, heartVars>>

----------------------------------------------------------------------------
(* run.                                                                    *)

\* `?` on an Err inside run: run returns it and main goes on to its clean-up.
RunReturns(r) ==
    /\ res' = r
    /\ pc' = "disable_raw_mode"

\* let mut tick: u64 = 0; let mut last_tick = Instant::now();
RunStart ==
    /\ pc = "run"
    /\ tick' = Zero
    /\ elapsed' = 0
    /\ sinceInc' = 0
    /\ pc' = "draw"
    /\ UNCHANGED <<timeout, waited, pending, res, ret, raw, attempted, frame,
                   draws, advances, firstPollQuit, usize_bits, colorVars, heartVars>>

\* draw_ui: the frame's color is rainbow_color(tick); the heart is painted by
\* draw_heart (HeartSpec follows its loops).
draw_ui(t) == [tick |-> t, color |-> rainbow_color(t)]

\* terminal.draw(|f| draw_ui(f, tick))?
Draw(ok) ==
    /\ pc = "draw"
    /\ IF ok
       THEN /\ frame' = draw_ui(tick)
            /\ draws' = Min(draws + 1, DrawsCap)
            /\ pc' = "timeout"
            /\ res' = res
       ELSE /\ RunReturns("Err")
            /\ UNCHANGED <<frame, draws>>
    /\ UNCHANGED <<tick, elapsed, timeout, waited, pending, ret, raw, attempted,
                   advances, sinceInc, firstPollQuit,
                   usize_bits, colorVars, heartVars>>

\* unwrap_or(tick_rate) in place of unwrap_or(Duration::from_millis(0)).
PollTimeoutFor_unwrapToCadence(e) == IF e <= TickRate THEN TickRate - e ELSE TickRate

\* tick_rate.checked_sub(e).unwrap_or(Duration::from_millis(0))
PollTimeoutFor(e) == IF e <= TickRate THEN TickRate - e ELSE 0

\* A comparison of the key code that ignores its case.
IsQuitKey_anyCase(e) ==
    e.kind = "Key" /\ (e.code = "q" \/ e.code = "Q" \/ e.code = "Esc")

IsQuitKey(e) == e.kind = "Key" /\ (e.code = "q" \/ e.code = "Esc")

\* let timeout = ...(last_tick.elapsed())...; and the call of event::poll
ComputeTimeout ==
    /\ pc = "timeout"
    /\ timeout' = PollTimeoutFor(elapsed)
    /\ waited' = 0
    /\ firstPollQuit' = IF draws = 1 /\ firstPollQuit = "unset"
                        THEN (IF pending # <<>> /\ IsQuitKey(Head(pending))
                              THEN "yes" ELSE "no")
                        ELSE firstPollQuit
    /\ pc' = "poll"
    /\ UNCHANGED <<tick, elapsed, pending, res, ret, raw, attempted, frame,
                   draws, advances, sinceInc, usize_bits, colorVars, heartVars>>

\* event::poll(timeout)? returns Ok(true): an event is available.
PollReady ==
    /\ pc = "poll"
    /\ pending # <<>>
    /\ pc' = "read"
    /\ waited' = 0
    /\ UNCHANGED <<tick, elapsed, timeout, pending, res, ret, raw,
                   attempted, frame, draws, advances, sinceInc, firstPollQuit, usize_bits, colorVars,
                   heartVars>>

\* event::poll(timeout)? returns Ok(false): the timeout passed with no event.
PollTimedOut ==
    /\ pc = "poll"
    /\ pending = <<>>
    /\ waited >= timeout
    /\ pc' = "advance_check"
    /\ waited' = 0
    /\ UNCHANGED <<tick, elapsed, timeout, pending, res, ret, raw,
                   attempted, frame, draws, advances, sinceInc, firstPollQuit, usize_bits, colorVars,
                   heartVars>>

\* event::poll(timeout)? returns Err.
PollErr ==
    /\ pc = "poll"
    /\ RunReturns("Err")
    /\ waited' = 0
    /\ UNCHANGED <<tick, elapsed, timeout, pending, ret, raw, attempted,
                   frame, draws, advances, sinceInc, firstPollQuit, usize_bits, colorVars, heartVars>>

\* The quit key noted in a flag and the loop left only after the advance
\* check, in place of `break` at once.
Read_breakAfterAdvance(ok) ==
    /\ pc = "read"
    /\ IF ok
       THEN /\ pending' = Tail(pending)
            /\ IF IsQuitKey(Head(pending))
               THEN /\ RunReturns("Ok")
                    /\ tick' = IF elapsed >= TickRate
                               THEN wrapping_add(tick, One) ELSE tick
                    /\ elapsed' = IF elapsed >= TickRate THEN 0 ELSE elapsed
               ELSE /\ pc' = "advance_check" /\ res' = res
                    /\ UNCHANGED <<tick, elapsed>>
       ELSE /\ RunReturns("Err")
            /\ UNCHANGED <<pending, tick, elapsed>>
    /\ UNCHANGED <<timeout, waited, ret, raw, attempted, frame, draws,
                   advances, sinceInc, firstPollQuit, usize_bits,
                   colorVars, heartVars>>

\* if let Event::Key(key) = event::read()? { if key.code == ... { break; } }
Read(ok) ==
    /\ pc = "read"
    /\ IF ok
       THEN /\ pending' = Tail(pending)
            /\ IF IsQuitKey(Head(pending))
               THEN RunReturns("Ok")
               ELSE pc' = "advance_check" /\ res' = res
       ELSE /\ RunReturns("Err")
            /\ pending' = pending
    /\ UNCHANGED <<tick, elapsed, timeout, waited, ret, raw, attempted, frame,
                   draws, advances, sinceInc, firstPollQuit, usize_bits, colorVars, heartVars>>

\* `>` in place of `>=`.
AdvanceDue_strict(e) == e > TickRate

\* The advance made in every iteration, the cadence test left out.
AdvanceDue_always(e) == TRUE

\* last_tick.elapsed() >= tick_rate
AdvanceDue(e) == e >= TickRate

\* if last_tick.elapsed() >= tick_rate { ... }
AdvanceCheck ==
    /\ pc = "advance_check"
    /\ pc' = IF AdvanceDue(elapsed) THEN "inc" ELSE "draw"
    /\ UNCHANGED <<tick, elapsed, timeout, waited, pending, res, ret, raw,
                   attempted, frame, draws, advances, sinceInc, firstPollQuit, usize_bits, colorVars,
                   heartVars>>

\* tick = tick.wrapping_add(1);
Inc ==
    /\ pc = "inc"
    /\ advances < MaxAdvances
    /\ tick' = wrapping_add(tick, One)
    /\ advances' = advances + 1
    /\ sinceInc' = 0
    /\ pc' = "reset"
    /\ UNCHANGED <<elapsed, timeout, waited, pending, res, ret, raw, attempted,
                   frame, draws, firstPollQuit,
                   usize_bits, colorVars, heartVars>>

\* last_tick = Instant::now();
Reset ==
    /\ pc = "reset"
    /\ elapsed' = 0
    /\ pc' = "draw"
    /\ UNCHANGED <<tick, timeout, waited, pending, res, ret, raw, attempted,
                   frame, draws, advances, sinceInc, firstPollQuit, usize_bits, colorVars, heartVars>>

----------------------------------------------------------------------------
(* The specification of main and run.                                      *)

ColorIdle == shown = <<>> /\ ctick = Zero
HeartIdle ==
    /\ hpc = "idle" /\ layer = 0 /\ i = 0 /\ pts = <<>>
    /\ hcolor = "none" /\ drawn = <<>>

\* The state in which main is entered.
Start ==
    /\ pc = "install"
    /\ tick = Zero /\ elapsed = 0 /\ timeout = 0 /\ waited = 0
    /\ pending = <<>>
    /\ res = "none" /\ ret = "none"
    /\ raw = FALSE /\ attempted = {}
    /\ frame = [tick |-> Zero, color |-> "none"]
    /\ draws = 0 /\ advances = 0 /\ sinceInc = 0
    /\ firstPollQuit = "unset"

\* The top of the loop two advances before the counter wraps: 2^64 advances
\* cannot be followed one by one, so the run is picked up there, right after
\* the advance to 2^64 - 2 and the reset of last_tick.
LateTick == U64(Limb - 1, Limb - 1, Limb - 1, Limb - 2)
LateTickBefore == U64(Limb - 1, Limb - 1, Limb - 1, Limb - 3)

Late ==
    /\ pc = "draw"
    /\ tick = LateTick /\ elapsed = 0 /\ timeout = 0 /\ waited = 0
    /\ pending = <<>>
    /\ res = "none" /\ ret = "none"
    /\ raw = TRUE /\ attempted = {}
    /\ frame = draw_ui(LateTickBefore)
    /\ draws = DrawsCap /\ advances = 0 /\ sinceInc = 0
    /\ firstPollQuit = "no"

Init ==
    /\ usize_bits \in {32, 64}
    /\ Start
    /\ ColorIdle /\ HeartIdle

\* The run from its start, and picked up shortly before the counter wraps.
LongRunInit ==
    /\ usize_bits \in {32, 64}
    /\ Start \/ Late
    /\ ColorIdle /\ HeartIdle

Program ==
    \/ \E ok \in BOOLEAN : Install(ok)
    \/ \E ok \in BOOLEAN : EnableRawMode(ok)
    \/ \E ok \in BOOLEAN : TerminalNew(ok)
    \/ \E ok \in BOOLEAN : Clear(ok)
    \/ RunStart
    \/ \E ok \in BOOLEAN : Draw(ok)
    \/ ComputeTimeout
    \/ PollReady
    \/ PollTimedOut
    \/ PollErr
    \/ \E ok \in BOOLEAN : Read(ok)
    \/ AdvanceCheck
    \/ Inc
    \/ Reset
    \/ \E ok \in BOOLEAN : DisableRawMode(ok)
    \/ \E ok \in BOOLEAN : ShowCursor(ok)

Clock == \E d \in Delays : TimePass(d)

Keyboard == \E e \in Events : Input(e)

Next == Program \/ Clock \/ Keyboard

Spec == Init /\ [][Next]_vars

LongRunSpec == LongRunInit /\ [][Next]_vars

\* A running program takes its next step, and the clock does not stop.
FairSpec == Spec /\ WF_vars(Program) /\ WF_vars(Clock)

----------------------------------------------------------------------------
(* rainbow_color along the advances of the counter.                        *)

\* Tick values next to zero and next to the places where a limb, the low 32
\* bits or all 64 bits carry over.
TickInputs ==
    {U64(0, 0, 0, k) : k \in 0..NearBy}
    \cup {U64(0, 0, 0, Limb - k) : k \in 1..NearBy}
    \cup {U64(0, 0, Limb - 1, Limb - k) : k \in 1..NearBy}
    \cup {U64(0, 1, 0, k) : k \in 0..NearBy}
    \cup {U64(Limb - 1, Limb - 1, Limb - 1, Limb - k) : k \in 1..NearBy}

ColorInit ==
    /\ usize_bits \in {32, 64}
    /\ ctick \in TickInputs
    /\ shown = <<rainbow_color(ctick)>>
    /\ Start /\ HeartIdle

\* tick = tick.wrapping_add(1), and the next frame's rainbow_color(tick).
ColorAdvance ==
    /\ Len(shown) <= ColorSteps
    /\ ctick' = wrapping_add(ctick, One)
    /\ shown' = Append(shown, rainbow_color(ctick'))
    /\ UNCHANGED <<mainVars, usize_bits, heartVars>>

ColorNext == ColorAdvance

ColorSpec == ColorInit /\ [][ColorNext]_vars

----------------------------------------------------------------------------
(* draw_heart.                                                             *)

Steps == 1000        \* draw_heart: steps
Layers == 4          \* draw_heart: layers
Thickness == 5       \* draw_ui: thickness 0.05, in hundredths

\* let scale = 1.0 + (layer as f64) * thickness;  in hundredths
Scale(l) == 100 + l * Thickness

HeartTicks == {Zero, U64(0, 0, 0, 3), U64Max}

\* draw_ui calls draw_heart(ctx, area, rainbow_color(tick), 0.05).
HeartInit ==
    /\ usize_bits \in {32, 64}
    /\ \E t \in HeartTicks : hcolor = rainbow_color(t)
    /\ hpc = "layers" /\ layer = 0 /\ i = 0 /\ pts = <<>> /\ drawn = <<>>
    /\ Start /\ ColorIdle

\* for layer in 0..layers { let mut pts = Vec::with_capacity(steps + 1);
LayerLoop ==
    /\ hpc = "layers"
    /\ IF layer < Layers
       THEN hpc' = "points" /\ pts' = <<>> /\ i' = 0
       ELSE hpc' = "done" /\ UNCHANGED <<pts, i>>
    /\ UNCHANGED <<layer, hcolor, drawn, mainVars, usize_bits, colorVars>>

\* `0..steps` in place of `0..=steps`.
InPointRange_exclusive(k) == k < Steps

\* for i in 0..=steps
InPointRange(k) == k <= Steps

\* for i in 0..=steps { ...; pts.push((x_norm, y_norm)); }
\* A point is kept as the index i of the sample t = i * 2 pi / steps.
PushPoint ==
    /\ hpc = "points"
    /\ InPointRange(i)
    /\ pts' = Append(pts, i)
    /\ i' = i + 1
    /\ UNCHANGED <<hpc, layer, hcolor, drawn, mainVars, usize_bits, colorVars>>

\* ctx.draw(&Points { coords: &pts, color });  and the next layer
CtxDraw ==
    /\ hpc = "points"
    /\ ~InPointRange(i)
    /\ drawn' = Append(drawn, [layer |-> layer, scale |-> Scale(layer),
                               color |-> hcolor, n |-> Len(pts),
                               first |-> pts[1], last |-> pts[Len(pts)]])
    /\ layer' = layer + 1
    /\ hpc' = "layers"
    /\ UNCHANGED <<pts, i, hcolor, mainVars, usize_bits, colorVars>>

HeartNext == LayerLoop \/ PushPoint \/ CtxDraw

HeartSpec == HeartInit /\ [][HeartNext]_vars

----------------------------------------------------------------------------
(* What the claims are stated with.                                        *)

Restoration == {"disable_raw_mode", "show_cursor"}

QuitKeys == {KeyQ, KeyEsc}

Max(a, b) == IF a > b THEN a ELSE b

\* The successor of a u64 that wraps at 2^64, limb by limb.
Succ(t) ==
    IF t[4] # Limb - 1 THEN U64(t[1], t[2], t[3], t[4] + 1)
    ELSE IF t[3] # Limb - 1 THEN U64(t[1], t[2], t[3] + 1, 0)
    ELSE IF t[2] # Limb - 1 THEN U64(t[1], t[2] + 1, 0, 0)
    ELSE IF t[1] # Limb - 1 THEN U64(t[1] + 1, 0, 0, 0)
    ELSE U64(0, 0, 0, 0)

\* t mod 5 of the whole 64-bit value: 2^16 leaves 1 on division by 5, so
\* the value and the sum of its limbs leave the same remainder.
Mod5(t) == (t[1] + t[2] + t[3] + t[4]) % 5

Palette ==
    [k \in 0..4 |-> CASE k = 0 -> "Red"
                      [] k = 1 -> "Yellow"
                      [] k = 2 -> "Magenta"
                      [] k = 3 -> "LightRed"
                      [] k = 4 -> "LightMagenta"]

----------------------------------------------------------------------------
(* C1.  Whenever main returns after enable_raw_mode has succeeded, both    *)
(* restoration calls, disable_raw_mode and show_cursor, have been made.    *)
(* enable_raw_mode has succeeded exactly when the terminal is in raw mode  *)
(* or disable_raw_mode has been called.                                    *)
C1_RestorationOnEveryReturn ==
    (pc = "done" /\ (raw \/ "disable_raw_mode" \in attempted))
        => attempted = Restoration

(* C2.  After an error inside the loop control never comes back to a loop  *)
(* position, and when main then returns it returns an error and both       *)
(* clean-up calls have been made.                                          *)
C2_LoopErrorThenCleanupThenErr ==
    /\ res = "Err" => pc \notin LoopPcs
    /\ (res = "Err" /\ pc = "done") => (ret = "Err" /\ attempted = Restoration)

(* C3.  run returns Ok only by reading a key event with code 'q' or Esc,   *)
(* and reading one always returns Ok; reading any other event leaves the   *)
(* loop running, the tick as it was and the cadence timer not reset.       *)
C3_OnlyQuitKeysEndTheLoop ==
    /\ [][(res' = "Ok" /\ res # "Ok")
            => (pc = "read" /\ Head(pending) \in QuitKeys)]_vars
    /\ [][(pc = "read" /\ pc' # "read" /\ res' # "Err")
            => IF Head(pending) \in QuitKeys
               THEN res' = "Ok" /\ pc' \notin LoopPcs
               ELSE /\ res' = "none" /\ pc' \in LoopPcs
                    /\ tick' = tick /\ elapsed' = elapsed
                    /\ advances' = advances]_vars

\* The advance check reached before a cadence has passed: the poll did not
\* time out, so an event was read, and the loop is still running.
C3_Witness ==
    /\ pc = "advance_check" /\ res = "none"
    /\ elapsed < TickRate /\ draws = 1 /\ tick = Zero

(* C4.  When a quit key heads the input at the first poll, the poll can    *)
(* return at once, the first iteration never reaches the advance check or  *)
(* a second draw, and run can only return with one draw made and tick 0;   *)
(* in any iteration the read of a quit key leaves the loop in that very    *)
(* step, with the tick and the cadence timer as they were.                 *)
C4_PendingQuitEndsTheIteration ==
    /\ [](firstPollQuit = "yes"
            => /\ pc \in {"poll", "read", "disable_raw_mode", "show_cursor", "done"}
               /\ draws = 1 /\ tick = Zero /\ advances = 0
               /\ (pc = "poll" => ENABLED PollReady)
               /\ (pc = "read" => Head(pending) \in QuitKeys))
    /\ [](res = "Ok" => tick = frame.tick)
    /\ [][(pc = "read" /\ pc' # "read" /\ res' # "Err" /\ Head(pending) \in QuitKeys)
            => (res' = "Ok" /\ pc' = "disable_raw_mode"
                /\ tick' = tick /\ elapsed' = elapsed)]_vars

C4_Witness ==
    /\ firstPollQuit = "yes" /\ res = "Ok" /\ ret = "Ok"
    /\ draws = 1 /\ tick = Zero /\ sinceInc = 0

(* C5.  The color shown after five wrapping advances of the counter is the *)
(* color shown before them, from every tick value.                         *)
C5_ColorPeriodFive ==
    \A k \in 1..Len(shown) : k + 5 <= Len(shown) => shown[k + 5] = shown[k]

(* C6.  rainbow_color(tick) is the palette entry at index tick mod 5, the  *)
(* index lies in 0..4, and ticks 0, 4 and 5 give the first, the last and   *)
(* the first entry.                                                        *)
C6_ColorIsPaletteAtTickMod5 ==
    /\ ColorIndex(ctick) \in 0..4
    /\ shown[Len(shown)] = Palette[Mod5(ctick)]
    /\ ctick = U64(0, 0, 0, 0) => shown[Len(shown)] = "Red"
    /\ ctick = U64(0, 0, 0, 4) => shown[Len(shown)] = "LightMagenta"
    /\ ctick = U64(0, 0, 0, 5) => shown[Len(shown)] = "Red"

(* C7.  The timeout handed to poll is max(0, cadence - elapsed), between 0 *)
(* and the cadence; once a cadence has passed since the last advance the   *)
(* poll's wait is over; and as long as the loop runs (no quit key read, no *)
(* I/O error) every tick advance is followed by another one, whatever      *)
(* events arrive.                                                          *)
C7_TimeoutBoundedAndTickAdvances ==
    /\ [](timeout \in 0..TickRate)
    /\ [][(pc = "timeout" /\ pc' = "poll")
            => timeout' = Max(0, TickRate - elapsed)]_vars
    /\ []((pc = "poll" /\ elapsed >= TickRate) => waited >= timeout)
    /\ \A n \in 0..(MaxAdvances - 1) :
         (pc \in LoopPcs /\ advances = n)
             ~> (advances = n + 1 \/ pc \notin LoopPcs)

\* After two advances, more than a cadence since the last one, a poll with
\* timeout 0 and a non-quit key waiting.
C7_Witness ==
    /\ pc = "poll" /\ timeout = 0 /\ elapsed > TickRate
    /\ advances = 2 /\ pending = <<KeyUpperQ>>

(* C8.  An iteration is one draw, one timeout computation and poll, at     *)
(* most one read, then the advance check; the tick stays the one the draw  *)
(* used until the check; the check advances exactly when the elapsed time  *)
(* is at least the cadence, and then the tick becomes its wrapping         *)
(* successor and the timer is reset; nothing else changes the tick or      *)
(* resets the timer; two consecutive draws use the same tick or successive *)
(* ticks.                                                                  *)
C8_OneDrawPollCheckPerIteration ==
    /\ [][(pc \in LoopPcs /\ pc' # pc)
            => CASE pc = "draw" -> pc' \in {"timeout", "disable_raw_mode"}
                 [] pc = "timeout" -> pc' = "poll"
                 [] pc = "poll" -> pc' \in {"read", "advance_check", "disable_raw_mode"}
                 [] pc = "read" -> pc' \in {"advance_check", "disable_raw_mode"}
                 [] pc = "advance_check" ->
                        pc' = IF elapsed >= 80 THEN "inc" ELSE "draw"
                 [] pc = "inc" -> pc' = "reset" /\ tick' = Succ(tick)
                 [] pc = "reset" -> pc' = "draw" /\ elapsed' = 0]_vars
    /\ [][tick' # tick => (pc = "inc" /\ tick' = Succ(tick))]_vars
    /\ [][elapsed' < elapsed => pc = "reset"]_vars
    /\ [](pc \in {"timeout", "poll", "read", "advance_check"} => tick = frame.tick)
    /\ [][(frame' # frame /\ draws >= 1)
            => (pc = "draw" /\ frame'.tick \in {frame.tick, Succ(frame.tick)})]_vars

\* The draw that follows the advance from 2^64 - 1 to 0 has been made.
C8_Witness ==
    /\ pc = "timeout" /\ draws >= 2 /\ advances = 2
    /\ frame.tick = Zero /\ elapsed = 0

(* C9.  When draw_heart returns it has drawn exactly 4 layers, indexed 0   *)
(* to 3 in this order, each of exactly 1001 points, the samples 0 to 1000, *)
(* whatever the color.                                                     *)
C9_FourLayersOf1001Points ==
    /\ Len(pts) <= 1001
    /\ Len(drawn) <= 4
    /\ hpc = "done"
         => /\ Len(drawn) = 4
            /\ \A k \in 1..4 :
                 /\ drawn[k].layer = k - 1
                 /\ drawn[k].n = 1001
                 /\ drawn[k].first = 0 /\ drawn[k].last = 1000
                 /\ drawn[k].color = hcolor

C9_Witness ==
    /\ hpc = "done" /\ hcolor = "LightRed"
    /\ Len(drawn) = 4 /\ Len(pts) = 1001

(* C10, as claimed.  Each tick advance comes at least one cadence (80 ms)  *)
(* after the one before it (the first one after run started), whatever     *)
(* events arrive, and the tick value never decreases.                      *)
C10_TickNeverDecreases ==
    /\ [][tick' # tick => sinceInc >= 80]_vars
    /\ [][~ULess(tick', tick)]_vars

(* C10, amended.  Each tick advance comes at least one cadence (80 ms)     *)
(* after the one before it (the first one after run started), whatever     *)
(* events arrive, and the tick value never decreases except in the advance *)
(* that wraps it from 2^64 - 1 to 0.                                       *)
C10_TickDecreasesOnlyAtTheWrap ==
    /\ [][tick' # tick => sinceInc >= 80]_vars
    /\ [][ULess(tick', tick) => (tick = U64Max /\ tick' = Zero)]_vars
    /\ [][tick' # tick => (ULess(tick, tick') \/ tick = U64Max)]_vars

\* The second advance has just been made, it wrapped the tick to 0, and a
\* key pressed in the meantime is still waiting.
C10_Witness ==
    /\ pc = "reset" /\ advances = 2 /\ tick = Zero
    /\ sinceInc = 0 /\ pending # <<>>

====
